---- MODULE Spec2Model ----
(***************************************************************************)
(* A model of arco-era5's orchestration helpers:                           *)
(*   - subprocess_run  (src/arco_era5/utils.py): the log supervisor that   *)
(*     reads a child's merged output line by line;                         *)
(*   - date_range      (src/arco_era5/utils.py, model-levels-to-zarr.py);  *)
(*   - make_path       (src/model-levels-to-zarr.py).                      *)
(* Byte strings and text are sequences of atoms.  An atom stands for a run *)
(* of bytes or characters that the model never needs to cut apart; the     *)
(* atoms are chosen so that no atom is a concatenation of other atoms,     *)
(* hence two sequences are equal exactly when the strings are.             *)
(***************************************************************************)
EXTENDS Integers, Sequences, FiniteSets, TLC

VARIABLES
    \* ---- subprocess_run ----
    command,      \* what the command string names: "job" or "missing" executable
    output,       \* everything the child writes to its merged stdout/stderr
    childStatus,  \* the child's exit status (never read by subprocess_run)
    rest,         \* the part of output not yet returned by readline
    consumed,     \* the raw lines readline has returned, in order
    sink,         \* logger.info records, in order
    errlog,       \* logger.error records, in order
    pc,           \* position of subprocess_run
    exc,          \* the last exception raised: its kind, where, and whether caught
    exit,         \* the orchestrator's exit: status and message
    popenCalls,   \* number of subprocess.Popen calls made
    \* ---- date_range ----
    start_date, end_date, calPc, calResult,
    \* ---- make_path ----
    time, chunk, pathPc, pathResult

runVars  == <<command, output, childStatus, rest, consumed, sink, errlog, pc,
              exc, exit, popenCalls>>
calVars  == <<start_date, end_date, calPc, calResult>>
pathVars == <<time, chunk, pathPc, pathResult>>
vars     == <<runVars, calVars, pathVars>>

(***************************************************************************)
(* Bounds of the model.                                                    *)
(***************************************************************************)
MaxStream   == 4    \* atoms in the child's whole output
MaxSpan     == 5    \* days between start and end, either way
MaxChunkLen == 5    \* atoms in a chunk token

\* Sequences over S of length at most n.
SeqsUpTo(S, n) == UNION {[1..k -> S] : k \in 0..n}

(***************************************************************************)
(* Text helpers shared by the three functions.                             *)
(***************************************************************************)
NL == "\n"
LeadByte == "0xC3"      \* first byte of the two-byte UTF-8 encoding of U+00E9
ContByte == "0xA9"      \* its continuation byte
EAcute   == "U+00E9"

\* The bytes a job may write.
Bytes == {"Fail", "ed", "failed", "JOB_STATE_CANCELLING", " ", NL, LeadByte, ContByte}

\* What /bin/sh writes for a command it cannot find.
ShellNotFound == <<"sh: 1: job: not found", NL>>

FailedMarker     == <<"Fail", "ed">>
CancellingMarker == <<"JOB_STATE_CANCELLING">>
StoppingPrefix   == <<"Stopping subprocess as ">>

\* Python's  sub in s .
Contains(sub, s) ==
    \E i \in 0..(Len(s) - Len(sub)) : SubSeq(s, i + 1, i + Len(sub)) = sub

\* file.readline(): up to and including the first newline, or all that is left.
RECURSIVE ReadLine(_)
ReadLine(s) ==
    IF s = <<>> THEN <<>>
    ELSE IF Head(s) = NL THEN <<NL>>
    ELSE <<Head(s)>> \o ReadLine(Tail(s))

\* bytes.decode("utf-8"): ok is FALSE where Python raises UnicodeDecodeError.
RECURSIVE Decode(_)
Decode(b) ==
    IF b = <<>> THEN [ok |-> TRUE, text |-> <<>>]
    ELSE IF Head(b) = LeadByte
    THEN IF Len(b) >= 2 /\ b[2] = ContByte
         THEN LET r == Decode(Tail(Tail(b)))
              IN  [ok |-> r.ok, text |-> IF r.ok THEN <<EAcute>> \o r.text ELSE <<>>]
         ELSE [ok |-> FALSE, text |-> <<>>]
    ELSE IF Head(b) = ContByte
    THEN [ok |-> FALSE, text |-> <<>>]
    ELSE LET r == Decode(Tail(b))
         IN  [ok |-> r.ok, text |-> IF r.ok THEN <<Head(b)>> \o r.text ELSE <<>>]

Whitespace == {" ", NL}

RECURSIVE LStrip(_)
LStrip(s) == IF s /= <<>> /\ Head(s) \in Whitespace THEN LStrip(Tail(s)) ELSE s

RECURSIVE RStrip(_)
RStrip(s) ==
    IF s /= <<>> /\ s[Len(s)] \in Whitespace THEN RStrip(SubSeq(s, 1, Len(s) - 1)) ELSE s

\* str.strip()
Strip(s) == RStrip(LStrip(s))

(***************************************************************************)
(* subprocess_run                                                          *)
(***************************************************************************)
IsMarkerLineOnlyFailed(log_message) == Contains(FailedMarker, log_message)

\* The test of the if statement.
IsMarkerLine(log_message) ==
    Contains(FailedMarker, log_message) \/ Contains(CancellingMarker, log_message)

LogInfoFirst(log, log_message) == <<log_message>> \o log

\* logger.info(log_message)
LogInfo(log, log_message) == Append(log, log_message)

SinkAfterLineAlways(log, log_message) == LogInfo(log, log_message)

\* The sink after one decoded line went through the loop body: sys.exit comes
\* before logger.info.
SinkAfterLine(log, log_message) ==
    IF IsMarkerLine(log_message) THEN log ELSE LogInfo(log, log_message)

\* except subprocess.CalledProcessError
Caught(kind) == kind = "CalledProcessError"

NoExc  == [kind |-> "none", at |-> "none", caught |-> FALSE]
NoExit == [status |-> 0, message |-> <<>>]

\* An exception of the given kind arises inside the try block.
RaiseInLoop(kind, at) ==
    /\ exc' = [kind |-> kind, at |-> at, caught |-> Caught(kind)]
    /\ IF Caught(kind)
       THEN /\ errlog' = Append(errlog, <<"Failed to execute dataflow job due to ">>)
            /\ pc' = "returned"
       ELSE /\ errlog' = errlog
            /\ pc' = "raised"

PopenOutcomeRetry(ok) == IF ok THEN "reading" ELSE "start"

\* Where subprocess_run stands after subprocess.Popen: Popen is outside the try.
PopenOutcome(ok) == IF ok THEN "reading" ELSE "raised"

RunInit ==
    /\ command \in {"job", "missing"}
    /\ IF command = "job"
       THEN /\ output \in SeqsUpTo(Bytes, MaxStream)
            /\ childStatus \in {0, 1}
       ELSE /\ output = ShellNotFound
            /\ childStatus = 127
    /\ rest = output
    /\ consumed = <<>>
    /\ sink = <<>>
    /\ errlog = <<>>
    /\ pc = "start"
    /\ exc = NoExc
    /\ exit = NoExit
    /\ popenCalls = 0

\* subprocess.Popen(command, shell=True, ...): the shell is spawned, or the
\* operating system refuses and Popen raises OSError.
Popen ==
    /\ pc = "start"
    /\ \E ok \in BOOLEAN :
         /\ pc' = PopenOutcome(ok)
         /\ exc' = IF ok THEN NoExc ELSE [kind |-> "OSError", at |-> "popen", caught |-> FALSE]
    /\ popenCalls' = popenCalls + 1
    /\ UNCHANGED <<command, output, childStatus, rest, consumed, sink, errlog, exit>>

\* One iteration of  for line in iter(process.stdout.readline, b"")  whose
\* readline returns a line.
ReadStep ==
    /\ pc = "reading"
    /\ rest /= <<>>
    /\ LET line == ReadLine(rest)
           d    == Decode(line)
           log_message == Strip(d.text)
       IN  /\ rest' = SubSeq(rest, Len(line) + 1, Len(rest))
           /\ consumed' = Append(consumed, line)
           /\ IF ~d.ok
              THEN /\ RaiseInLoop("UnicodeDecodeError", "decode")
                   /\ UNCHANGED <<sink, exit>>
              ELSE /\ sink' = SinkAfterLine(sink, log_message)
                   /\ IF IsMarkerLine(log_message)
                      THEN /\ exit' = [status |-> 1,
                                       message |-> StoppingPrefix \o log_message]
                           /\ pc' = "exited"
                           /\ exc' = [kind |-> "SystemExit", at |-> "sys.exit",
                                      caught |-> Caught("SystemExit")]
                           /\ errlog' = errlog
                      ELSE /\ UNCHANGED <<exit, pc, exc, errlog>>
    /\ UNCHANGED <<command, output, childStatus, popenCalls>>

\* readline returns b"" at end of file: the loop and the with block end and
\* subprocess_run returns None.
ReadEof ==
    /\ pc = "reading"
    /\ rest = <<>>
    /\ pc' = "returned"
    /\ UNCHANGED <<command, output, childStatus, rest, consumed, sink, errlog,
                   exc, exit, popenCalls>>

\* The read system call under readline fails: readline raises OSError.
ReadFails ==
    /\ pc = "reading"
    /\ RaiseInLoop("OSError", "readline")
    /\ UNCHANGED <<command, output, childStatus, rest, consumed, sink, exit, popenCalls>>

(***************************************************************************)
(* date_range                                                              *)
(* A date string is the sequence of the characters of 'YYYY-MM-DD'; a      *)
(* datetime at midnight is the tuple <<year, month, day>>.                 *)
(***************************************************************************)
DigitChars == <<"0", "1", "2", "3", "4", "5", "6", "7", "8", "9">>

DigitVal(c) == CHOOSE n \in 0..9 : DigitChars[n + 1] = c

\* The number a string of digits denotes.
RECURSIVE Num(_)
Num(s) == IF s = <<>> THEN 0 ELSE 10 * Num(SubSeq(s, 1, Len(s) - 1)) + DigitVal(s[Len(s)])

IsLeap(y) == (y % 4 = 0) /\ ((y % 100 /= 0) \/ (y % 400 = 0))

DaysInMonth(y, m) ==
    IF m = 2 THEN (IF IsLeap(y) THEN 29 ELSE 28)
    ELSE IF m \in {4, 6, 9, 11} THEN 30 ELSE 31

ValidDate(d) == d[2] \in 1..12 /\ d[3] \in 1..DaysInMonth(d[1], d[2])

\* The date a 'YYYY-MM-DD' string is parsed to.
ParseDate(s) == <<Num(SubSeq(s, 1, 4)), Num(SubSeq(s, 6, 7)), Num(SubSeq(s, 9, 10))>>

DateLT(a, b) ==
    \/ a[1] < b[1]
    \/ a[1] = b[1] /\ a[2] < b[2]
    \/ a[1] = b[1] /\ a[2] = b[2] /\ a[3] < b[3]

DateLE(a, b) == a = b \/ DateLT(a, b)

\* One step of the daily frequency.
NextDay(d) ==
    IF d[3] < DaysInMonth(d[1], d[2]) THEN <<d[1], d[2], d[3] + 1>>
    ELSE IF d[2] < 12 THEN <<d[1], d[2] + 1, 1>>
    ELSE <<d[1] + 1, 1, 1>>

\* The points cur, cur + 1 day, ... that do not pass end.
RECURSIVE DailyUpTo(_, _)
DailyUpTo(cur, end) ==
    IF DateLE(cur, end) THEN <<cur>> \o DailyUpTo(NextDay(cur), end) ELSE <<>>

date_range_end_excluded(start, end) ==
    IF ~ValidDate(ParseDate(start)) \/ ~ValidDate(ParseDate(end))
    THEN [ok |-> FALSE, value |-> <<>>]
    ELSE LET all == DailyUpTo(ParseDate(start), ParseDate(end))
         IN  [ok |-> TRUE, value |-> SubSeq(all, 1, Len(all) - 1)]

date_range_start_always(start, end) ==
    IF ~ValidDate(ParseDate(start)) \/ ~ValidDate(ParseDate(end))
    THEN [ok |-> FALSE, value |-> <<>>]
    ELSE [ok |-> TRUE,
          value |-> <<ParseDate(start)>> \o DailyUpTo(NextDay(ParseDate(start)), ParseDate(end))]

\* date_range(start_date, end_date) with freq "D".  pd.date_range raises
\* ValueError on a string that is no date; the function makes no other check.
date_range(start, end) ==
    IF ~ValidDate(ParseDate(start)) \/ ~ValidDate(ParseDate(end))
    THEN [ok |-> FALSE, value |-> <<>>]
    ELSE [ok |-> TRUE, value |-> DailyUpTo(ParseDate(start), ParseDate(end))]

\* The call of date_range.
DateRangeCall ==
    /\ calPc = "args"
    /\ calResult' = date_range(start_date, end_date)
    /\ calPc' = "done"
    /\ UNCHANGED <<start_date, end_date>>

(***************************************************************************)
(* make_path                                                               *)
(***************************************************************************)
RECURSIVE Digits(_)
Digits(n) ==
    IF n < 10 THEN <<DigitChars[n + 1]>>
    ELSE Digits(n \div 10) \o <<DigitChars[(n % 10) + 1]>>

RECURSIVE ZeroPad(_, _)
ZeroPad(s, width) == IF Len(s) >= width THEN s ELSE ZeroPad(<<"0">> \o s, width)

FormatIntUnpadded(n, width) == Digits(n)

\* f"{n:0<width>d}"
FormatInt(n, width) == ZeroPad(Digits(n), width)

\* Index of the first "_" of s, 0 when there is none.
FirstSep(s) ==
    IF \E i \in 1..Len(s) : s[i] = "_"
    THEN CHOOSE i \in 1..Len(s) : s[i] = "_" /\ \A k \in 1..(i - 1) : s[k] /= "_"
    ELSE 0

\* s.split('_', maxsplit)
RECURSIVE SplitAtMost(_, _)
SplitAtMost(s, maxsplit) ==
    IF maxsplit = 0 \/ FirstSep(s) = 0 THEN <<s>>
    ELSE <<SubSeq(s, 1, FirstSep(s) - 1)>>
         \o SplitAtMost(SubSeq(s, FirstSep(s) + 1, Len(s)), maxsplit - 1)

SplitTwice(s) == SplitAtMost(s, 2)

\* s.split('_')
Split(s) == SplitAtMost(s, Len(s))

PathPrefix == <<"gs://external-data-ai-for-weather/ERA5GRIB/HRES/Daily/">>

\* The part of the path both branches share, up to "_hres_".
DayPart(t) ==
    PathPrefix \o FormatInt(t[1], 4) \o <<"/">>
    \o FormatInt(t[1], 4) \o FormatInt(t[2], 2) \o FormatInt(t[3], 2)
    \o <<"_", "hres", "_">>

\* make_path(time, chunk): ok is FALSE where the unpacking of the split raises
\* ValueError.
make_path(t, c) ==
    IF Contains(<<"_">>, c)
    THEN LET parts == Split(c)
         IN  IF Len(parts) /= 3
             THEN [ok |-> FALSE, value |-> <<>>]
             ELSE [ok |-> TRUE,
                   value |-> DayPart(t) \o parts[1] \o <<".grb2", "_">> \o parts[2]
                             \o <<"_">> \o parts[3] \o <<".grib">>]
    ELSE [ok |-> TRUE, value |-> DayPart(t) \o c \o <<".grb2">>]

\* The call of make_path.
MakePathCall ==
    /\ pathPc = "args"
    /\ pathResult' = make_path(time, chunk)
    /\ pathPc' = "done"
    /\ UNCHANGED <<time, chunk>>

(***************************************************************************)
(* The arguments the functions are called with.                            *)
(***************************************************************************)
\* d rendered as 'YYYY-MM-DD'.
DateString(d) ==
    ZeroPad(Digits(d[1]), 4) \o <<"-">> \o ZeroPad(Digits(d[2]), 2) \o <<"-">>
    \o ZeroPad(Digits(d[3]), 2)

RECURSIVE DaysBeforeMonth(_, _)
DaysBeforeMonth(y, m) ==
    IF m = 1 THEN 0 ELSE DaysBeforeMonth(y, m - 1) + DaysInMonth(y, m - 1)

\* The day number of d, counting from 0001-01-01 as day 1.
Ordinal(d) ==
    LET y == d[1] - 1
    IN  y * 365 + (y \div 4) - (y \div 100) + (y \div 400) + DaysBeforeMonth(d[1], d[2]) + d[3]

\* Start dates next to the ends of months and years, in leap and other years.
StartDates ==
    {<<1999, 12, 29>>, <<2000, 2, 27>>, <<2001, 2, 26>>, <<1900, 2, 27>>,
     <<2100, 2, 26>>, <<2000, 1, 2>>, <<2004, 3, 1>>, <<1979, 1, 1>>}

\* Strings of the right shape that name no day.
NoDates == {<<2001, 2, 29>>, <<1900, 2, 29>>, <<2000, 13, 1>>, <<2000, 4, 31>>}

Near(s) ==
    {d \in ((s[1] - 1)..(s[1] + 1)) \X (1..12) \X (1..31) :
        /\ ValidDate(d)
        /\ Ordinal(d) - Ordinal(s) \in (0 - MaxSpan)..MaxSpan}

Times == {1999, 2000} \X {1, 11} \X {1, 11}

ChunkAtoms == {"o3q", "_"}
Chunks == SeqsUpTo(ChunkAtoms, MaxChunkLen)

RunIdle ==
    /\ command = "none"
    /\ output = <<>>
    /\ childStatus = 0
    /\ rest = <<>>
    /\ consumed = <<>>
    /\ sink = <<>>
    /\ errlog = <<>>
    /\ pc = "idle"
    /\ exc = NoExc
    /\ exit = NoExit
    /\ popenCalls = 0

CalIdle ==
    /\ start_date = <<>>
    /\ end_date = <<>>
    /\ calPc = "idle"
    /\ calResult = [ok |-> TRUE, value |-> <<>>]

PathIdle ==
    /\ time = <<>>
    /\ chunk = <<>>
    /\ pathPc = "idle"
    /\ pathResult = [ok |-> TRUE, value |-> <<>>]

CalInit ==
    /\ \E s \in StartDates \cup NoDates :
         /\ start_date = DateString(s)
         /\ \E e \in (IF s \in StartDates THEN Near(s) ELSE StartDates) \cup NoDates :
              end_date = DateString(e)
    /\ calPc = "args"
    /\ calResult = [ok |-> TRUE, value |-> <<>>]

PathInit ==
    /\ time \in Times
    /\ chunk \in Chunks
    /\ pathPc = "args"
    /\ pathResult = [ok |-> TRUE, value |-> <<>>]

(***************************************************************************)
(* Specifications: subprocess_run (Spec), date_range (CalSpec), make_path  *)
(* (PathSpec).                                                             *)
(***************************************************************************)
Init == RunInit /\ CalIdle /\ PathIdle

Next ==
    \/ Popen /\ UNCHANGED <<calVars, pathVars>>
    \/ ReadStep /\ UNCHANGED <<calVars, pathVars>>
    \/ ReadEof /\ UNCHANGED <<calVars, pathVars>>
    \/ ReadFails /\ UNCHANGED <<calVars, pathVars>>

Spec == Init /\ [][Next]_vars

CalSpecInit == RunIdle /\ CalInit /\ PathIdle
CalNext     == DateRangeCall /\ UNCHANGED <<runVars, pathVars>>
CalSpec     == CalSpecInit /\ [][CalNext]_vars

PathSpecInit == RunIdle /\ CalIdle /\ PathInit
PathNext     == MakePathCall /\ UNCHANGED <<runVars, calVars>>
PathSpec     == PathSpecInit /\ [][PathNext]_vars

(***************************************************************************)
(* Properties of subprocess_run.                                           *)
(***************************************************************************)
\* The lines of a byte stream, as successive readline calls return them.
RECURSIVE SplitLines(_)
SplitLines(s) ==
    IF s = <<>> THEN <<>>
    ELSE LET line == ReadLine(s)
         IN  <<line>> \o SplitLines(SubSeq(s, Len(line) + 1, Len(s)))

Decodable(line) == Decode(line).ok
TextOf(line)    == Strip(Decode(line).text)
HasMarker(s)    == Contains(<<"Fail", "ed">>, s) \/ Contains(<<"JOB_STATE_CANCELLING">>, s)
Terminal        == pc \in {"returned", "exited", "raised"}

\* C1: once a consumed line's text contains 'Failed' or 'JOB_STATE_CANCELLING',
\* no further line is consumed and the orchestrator has exited with a non-zero
\* status and a message carrying that line; subprocess_run never returns
\* normally after reading a line whose bytes contain a marker.
C1_MarkerLineAborts ==
    /\ \A i \in 1..Len(consumed) :
         (Decodable(consumed[i]) /\ HasMarker(TextOf(consumed[i]))) =>
             /\ i = Len(consumed)
             /\ pc = "exited"
             /\ exit.status /= 0
             /\ exit.message = <<"Stopping subprocess as ">> \o TextOf(consumed[i])
    /\ pc = "returned" => \A i \in 1..Len(consumed) : ~HasMarker(consumed[i])

C1_Witness ==
    /\ pc = "exited"
    /\ Len(consumed) >= 2
    /\ Contains(<<"JOB_STATE_CANCELLING">>, exit.message)

\* C2 (as claimed): a run whose output holds no marker in any line, and which
\* met no operating-system error, ends by returning normally with the whole
\* stream read.
C2_Original ==
    (/\ Terminal
     /\ exc.at \notin {"popen", "readline"}
     /\ \A i \in 1..Len(SplitLines(output)) : ~HasMarker(SplitLines(output)[i]))
    => (pc = "returned" /\ rest = <<>>)

\* C3 (as claimed): when the orchestrator aborts, the sink holds every consumed
\* line, the triggering line included.
C3_Original ==
    pc = "exited" =>
        /\ Len(sink) = Len(consumed)
        /\ sink[Len(sink)] = TextOf(consumed[Len(consumed)])

\* C3 (amended): every consumed line that decodes and holds no marker is in the
\* sink, at its position; on abort the sink stops one short of the triggering
\* line, which is carried by the exit message alone.
C3_Amended ==
    /\ \A i \in 1..Len(consumed) :
         (Decodable(consumed[i]) /\ ~HasMarker(TextOf(consumed[i]))) =>
             (i <= Len(sink) /\ sink[i] = TextOf(consumed[i]))
    /\ pc = "exited" =>
         /\ Len(sink) = Len(consumed) - 1
         /\ exit.message = <<"Stopping subprocess as ">> \o TextOf(consumed[Len(consumed)])

C3_Witness == pc = "exited" /\ Len(sink) >= 1 /\ Len(consumed) = Len(sink) + 1

\* C4: the sink is a prefix of the child's lines, each decoded and stripped, in
\* the child's order; an abort happens only when one whole line holds a marker.
C4_SinkIsOrderedPrefix ==
    LET lines == SplitLines(output)
    IN  /\ Len(sink) <= Len(lines)
        /\ \A i \in 1..Len(sink) : Decodable(lines[i]) /\ sink[i] = TextOf(lines[i])
        /\ pc = "exited" =>
             \E i \in 1..Len(lines) : Decodable(lines[i]) /\ HasMarker(TextOf(lines[i]))

\* A marker split across two consecutive lines was read to the end without abort.
C4_Witness ==
    /\ pc = "returned"
    /\ Len(sink) = 2
    /\ sink[1] /= sink[2]
    /\ Contains(<<"Fail", "\n", "ed">>, output)

\* C5 (as claimed): an error raised while reading the stream is caught, logged
\* at error level and leaves subprocess_run returning normally.
C5_Original ==
    exc.at \in {"readline", "decode"} =>
        (exc.caught /\ Len(errlog) >= 1 /\ pc = "returned")

\* C6 (as claimed): a command naming a missing executable never ends in a
\* normal return.
C6_Original == command = "missing" => pc /= "returned"

\* C6 (amended): when Popen itself raises, the error leaves subprocess_run at
\* once, after one call and before anything is read or logged; a missing
\* executable is not such a failure: the run does not abort on it, and when it
\* returns normally the shell's message is all the sink holds.
C6_Amended ==
    /\ exc.at = "popen" =>
         /\ pc = "raised"
         /\ popenCalls = 1
         /\ consumed = <<>> /\ sink = <<>> /\ errlog = <<>>
    /\ command = "missing" =>
         /\ pc /= "exited"
         /\ pc = "returned" => (sink = <<<<"sh: 1: job: not found">>>> /\ errlog = <<>>)

C6_Witness == command = "missing" /\ exc.at = "popen" /\ pc = "raised"

(***************************************************************************)
(* Properties of date_range.                                               *)
(***************************************************************************)
StartDay == ParseDate(start_date)
EndDay   == ParseDate(end_date)

\* C7: for valid dates start <= end, date_range returns (end - start).days + 1
\* points, strictly increasing, the first being start and the last end.
C7_DailyRange ==
    (calPc = "done" /\ ValidDate(StartDay) /\ ValidDate(EndDay) /\ DateLE(StartDay, EndDay))
    => /\ calResult.ok
       /\ Len(calResult.value) = Ordinal(EndDay) - Ordinal(StartDay) + 1
       /\ \A i \in 1..(Len(calResult.value) - 1) :
            Ordinal(calResult.value[i]) < Ordinal(calResult.value[i + 1])
       /\ \A i \in 1..Len(calResult.value) : ValidDate(calResult.value[i])
       /\ DateString(calResult.value[1]) = start_date
       /\ DateString(calResult.value[Len(calResult.value)]) = end_date

\* A range that crosses the end of February of a leap year.
C7_Witness ==
    /\ calPc = "done"
    /\ start_date = DateString(<<2000, 2, 27>>)
    /\ end_date = DateString(<<2000, 3, 2>>)
    /\ Len(calResult.value) = 5

\* C8 (as claimed): for end < start, date_range fails.
C8_Original ==
    (calPc = "done" /\ ValidDate(StartDay) /\ ValidDate(EndDay) /\ DateLT(EndDay, StartDay))
    => ~calResult.ok

\* C8 (amended): for valid dates with end < start, date_range raises nothing
\* and returns the empty list.
C8_Amended ==
    (calPc = "done" /\ ValidDate(StartDay) /\ ValidDate(EndDay) /\ DateLT(EndDay, StartDay))
    => (calResult.ok /\ calResult.value = <<>>)

C8_Witness ==
    /\ calPc = "done"
    /\ ValidDate(StartDay) /\ ValidDate(EndDay)
    /\ Ordinal(EndDay) = Ordinal(StartDay) - 1
    /\ calResult.ok

(***************************************************************************)
(* Properties of make_path.                                                *)
(***************************************************************************)
Separators(c) == Cardinality({i \in 1..Len(c) : c[i] = "_"})

C10_SeparatorCount ==
    pathPc = "done" => (pathResult.ok <=> Separators(chunk) \in {0, 2})

C10_Witness ==
    /\ pathPc = "done"
    /\ ~pathResult.ok
    /\ Separators(chunk) >= 3

====
